---- MODULE Spec2Model ----
(***************************************************************************)
(* scicrypt: UnsignedInteger addition (scicrypt-bigint/src/arithmetic/     *)
(* add.rs), the prime search engine (scicrypt-numbertheory/src/lib.rs) and *)
(* integer ElGamal (src/cryptosystems/integer_el_gamal.rs).                *)
(*                                                                         *)
(* Integers are GMP magnitudes: a limb array d of `alloc` limbs, a count   *)
(* `size` of limbs in use and a separately tracked size_in_bits.  The limb *)
(* width GMP_NUMB_BITS (64) is scaled down to LimbBits so that carries out *)
(* of a limb and out of the top limb happen at small values; the u64 sieve *)
(* offset is scaled to OffsetBits in the same way.                         *)
(*                                                                         *)
(* GMP's mpn functions never reallocate.  The memory that follows an       *)
(* integer's limb array is kept in its `over`, as far as a call has read   *)
(* or written it: a limb of it holds any value, each address its own,      *)
(* until the program writes it.  What else lives in that memory is not     *)
(* tracked.  Memory no call has touched is read by no call; the value of   *)
(* an integer whose size counts such limbs is taken for every content.     *)
(***************************************************************************)
EXTENDS Integers, Sequences, FiniteSets, TLC

\* ---------------------------------------------------------------- bounds
\* Width of one limb (GMP_NUMB_BITS, 64 in the build), scaled.
LimbBits == 2
\* Largest declared size_in_bits of a constructed UnsignedInteger.
MaxBits == 3
\* Number of top-level arithmetic calls in one run.
MaxOps == 2
\* Longest sequence handed to sum.
MaxSeq == 3
\* Largest bit_length asked of gen_prime and gen_safe_prime: from 9 bits on
\* the sieve visits two primes (3 and 5).
MaxBitLen == 9
\* Largest bit_length asked of gen_rsa_modulus.
MaxRsaBits == 17
\* Largest bit_length asked of a search that is followed to its return under
\* a fair random source.
MaxSearchBits == 8
\* Width of the sieve offset (u64 in the build), scaled.  The scaled type
\* is wide enough for every offset a sieve of these bit lengths reaches
\* (at most 20), as u64 is: OffsetWidthNeverDecides checks it.
OffsetBits == 6
\* Largest modulus of an IntegerElGamal group.
MaxModulus == 23
\* Width of value.size (i32) and of size_in_bits (u32), 32 in the build,
\* scaled.
CountBits == 4

VARIABLES
    ints,              \* the program's UnsignedIntegers, <<x, y>>
    debug_assertions,  \* the build: debug_assert! compiled in or out
    pc,                \* "idle" | "sum" | "done" | "panicked" | "aborted" | "undefined"
    last,              \* the last call: its operands as they were, its outcome
    nops,              \* calls made so far
    items,             \* sum: the iterator's elements (indices into ints)
    pos,               \* sum: elements consumed so far
    acc,               \* sum: the fold's accumulator
    pre_ok             \* every add_assign(&rhs) so far met its precondition

bigVars == <<ints, debug_assertions, pc, last, nops, items, pos, acc, pre_ok>>

VARIABLES
    fn,          \* the function called: gen_prime, gen_safe_prime, gen_rsa_modulus
    n_arg,       \* its bit_length argument
    running,     \* the search running: "gen_prime" | "gen_safe_prime" | "none"
    bit_length,  \* the running search's bit_length
    ppc,         \* where the search stands
    candidate,   \* the search's candidate
    mods,        \* candidate mod FIRST_PRIMES[i], computed once per candidate
    delta,       \* the sieve offset
    ret,         \* the value last returned
    p,           \* gen_rsa_modulus: the first safe prime
    q,           \* gen_rsa_modulus: the second safe prime
    lambda,      \* gen_rsa_modulus: the second component of its result
    calls,       \* gen_rsa_modulus: the bit_length of each gen_safe_prime call made
    drawn,       \* the random value the current search attempt drew
    trace        \* the steps the current search attempt has taken

primeVars == <<fn, n_arg, running, bit_length, ppc, candidate, mods, delta, ret,
               p, q, lambda, calls, drawn, trace>>

VARIABLES
    modulus,      \* IntegerElGamal: the group's modulus
    generator,    \* IntegerElGamal: the generator
    secret_key,   \* the secret key generate_keys returned
    public_key,   \* the public key generate_keys returned: h and the modulus
    plaintext,    \* the plaintext handed to encrypt
    enc_y,        \* the randomness encrypt drew
    ciphertext,   \* what encrypt returned: c1 and c2
    decrypted,    \* what decrypt returned
    epc,          \* "new" | "keyed" | "encrypted" | "decrypted" | "panicked" | "idle"
    eg_op         \* the last call made on the cryptosystem

egVars == <<modulus, generator, secret_key, public_key, plaintext, enc_y, ciphertext,
            decrypted, epc, eg_op>>

vars == <<bigVars, primeVars, egVars>>

\* ------------------------------------------------------------ arithmetic
Min(a, b) == IF a <= b THEN a ELSE b

Max(a, b) == IF a >= b THEN a ELSE b

RECURSIVE Pow(_, _)
Pow(b, n) == IF n = 0 THEN 1 ELSE b * Pow(b, n - 1)

Base == Pow(2, LimbBits)

Limbs == 0 .. Base - 1

RECURSIVE BitLen(_)
BitLen(v) == IF v = 0 THEN 0 ELSE 1 + BitLen(v \div 2)

RECURSIVE LimbCount(_)
LimbCount(v) == IF v = 0 THEN 0 ELSE 1 + LimbCount(v \div Base)

\* ------------------------------------------------------ UnsignedInteger
\* mpz_init2 + mpz_set_str: capacity for `bits` bits (at least one limb),
\* the value's limbs little-endian, zero above them, size = limbs in use.
from_string(v, bits) ==
    [d |-> [i \in 1 .. Max(1, (bits + LimbBits - 1) \div LimbBits) |->
                (v \div Pow(Base, i - 1)) % Base],
     over |-> <<>>,
     size |-> LimbCount(v),
     size_in_bits |-> bits]

UInts == UNION { { from_string(v, b) : v \in 0 .. Pow(2, b) - 1 } : b \in 1 .. MaxBits }

\* A limb of x as the program reads it: inside the allocation the stored limb,
\* outside it what the memory after the allocation holds.
LimbAt(x, i) == IF i <= Len(x.d) THEN x.d[i] ELSE x.over[i - Len(x.d)]

\* The limbs r written at x's limb pointer, n = Len(r) of them: the first
\* Len(x.d) land in the allocation, the rest in the memory after it.
StoreLimbs(x, r) ==
    [d |-> [i \in 1 .. Len(x.d) |-> IF i <= Len(r) THEN r[i] ELSE x.d[i]],
     over |-> [i \in 1 .. Max(Len(x.over), Len(r) - Len(x.d)) |->
                  IF i + Len(x.d) <= Len(r) THEN r[i + Len(x.d)] ELSE x.over[i]]]

\* x with the memory after its limb array known up to limb n, as a call that
\* reads n limbs finds it: a limb no call has read or written yet holds any
\* value.
Known(x, n) ==
    { [x EXCEPT !.over = @ \o t] :
        t \in [1 .. Max(0, n - Len(x.d) - Len(x.over)) -> Limbs] }

Abs(v) == IF v < 0 THEN 0 - v ELSE v

\* The largest size_in_bits (u32::MAX), scaled.
U32_MAX == Pow(2, CountBits) - 1

\* `carry as i32` and `carry as u32`: the carry word's low bits, read as a
\* signed and as an unsigned count.
AsI32(c) ==
    LET m == c % (U32_MAX + 1) IN
    IF m > U32_MAX \div 2 THEN m - (U32_MAX + 1) ELSE m

AsU32(c) == c % (U32_MAX + 1)

\* The n low limbs of x read as a number, j standing for every limb no call
\* has touched.
RECURSIVE ValueOf(_, _, _)
ValueOf(x, n, j) ==
    IF n = 0 THEN 0
    ELSE ValueOf(x, n - 1, j)
         + (IF n <= Len(x.d) + Len(x.over) THEN LimbAt(x, n) ELSE j) * Pow(Base, n - 1)

\* The integer an UnsignedInteger stands for: its `size` low limbs (GMP
\* keeps a sign in size; the magnitude has |size| limbs).  j plays no part
\* for an integer whose size lies within its allocation.
Value(x, j) == ValueOf(x, Abs(x.size), j)

\* The data model's invariants on one integer.
WellFormed(x) ==
    /\ x.size <= Len(x.d)
    /\ \A i \in 1 .. Len(x.d) : i > x.size => x.d[i] = 0
    /\ x.size > 0 => x.d[x.size] # 0
    /\ BitLen(Value(x, 0)) <= x.size_in_bits

\* mpn_add_n(rp, s1p, s2p, n): ripple-carry add of the n low limbs; the sum's
\* n limbs and the carry out of limb n.
RECURSIVE mpn_add_n(_, _, _)
mpn_add_n(a, b, n) ==
    IF n = 0 THEN [r |-> <<>>, cy |-> 0]
    ELSE LET lo == mpn_add_n(a, b, n - 1)
             s  == LimbAt(a, n) + LimbAt(b, n) + lo.cy
         IN  [r |-> Append(lo.r, s % Base), cy |-> s \div Base]

\* debug_assert!(self.size_in_bits >= rhs.size_in_bits): fires in a build
\* with debug assertions, is compiled out otherwise.
AddAssignPanics_NoAssert(self, rhs, dbg) == FALSE

AddAssignPanics(self, rhs, dbg) == dbg /\ ~(self.size_in_bits >= rhs.size_in_bits)

\* AddAssign<&UnsignedInteger>::add_assign past its assertion: the n =
\* min(size) low limbs are summed in place, the limbs above them are left as
\* they are, and size and size_in_bits grow by the carry out of limb n.
add_assign(self, rhs) ==
    LET n == Min(self.size, rhs.size) IN
    IF n = 0 THEN self
    ELSE LET res == mpn_add_n(self, rhs, n)
             largest_size == Max(self.size, rhs.size)
             mem == StoreLimbs(self, res.r)
         IN  [d |-> mem.d,
              over |-> mem.over,
              size |-> largest_size + AsI32(res.cy),
              size_in_bits |-> (Max(self.size_in_bits, rhs.size_in_bits) + AsU32(res.cy))
                                  % (U32_MAX + 1)]

\* max(self.size_in_bits, rhs.size_in_bits) + carry as u32 overflows: a panic
\* in a build with overflow checks (the debug profile), a wrap otherwise.
AddAssignOverflows(self, rhs, dbg) ==
    LET n == Min(self.size, rhs.size) IN
    /\ dbg
    /\ n # 0
    /\ Max(self.size_in_bits, rhs.size_in_bits) + AsU32(mpn_add_n(self, rhs, n).cy)
           > U32_MAX

\* Every outcome of self += &rhs: whether it panicked, and the two operands
\* afterwards.  The assertion comes before any limb is read; the overflow
\* check comes after the limbs and size are written.
AddAssignOutcomes(self, rhs, dbg) ==
    IF AddAssignPanics(self, rhs, dbg)
    THEN { [panicked |-> TRUE, self |-> self, rhs |-> rhs] }
    ELSE LET n == Min(self.size, rhs.size)
             After(s_, r_) ==
                 LET out == add_assign(s_, r_) IN
                 IF AddAssignOverflows(s_, r_, dbg)
                 THEN [panicked |-> TRUE,
                       self |-> [out EXCEPT !.size_in_bits = s_.size_in_bits],
                       rhs |-> r_]
                 ELSE [panicked |-> FALSE, self |-> out, rhs |-> r_]
         IN  { After(sr[1], sr[2]) : sr \in Known(self, n) \X Known(rhs, n) }

\* mpn_sec_add_1(rp, ap, n, b, tp) for n >= 1: adds the single limb b to the n
\* low limbs; the sum's n limbs and the carry out of limb n.
RECURSIVE mpn_sec_add_1(_, _, _)
mpn_sec_add_1(a, n, b) ==
    IF n = 0 THEN [r |-> <<>>, cy |-> b]
    ELSE LET lo == mpn_sec_add_1(a, n - 1, b)
             s  == LimbAt(a, n) + lo.cy
         IN  [r |-> Append(lo.r, s % Base), cy |-> s \div Base]

\* What mpn_sec_add_1 can leave in its return register when it is called
\* with n = 0, a call GMP leaves undefined: any word (those that differ
\* after the casts).
CarryWords == 0 .. U32_MAX

\* self.size_in_bits += carry as u32 overflows: a panic in a build with
\* overflow checks (the debug profile), a wrap otherwise.
AddAssignU64Panics(self, cy, dbg) == dbg /\ self.size_in_bits + AsU32(cy) > U32_MAX

\* AddAssign<u64>::add_assign: r are the limbs mpn_sec_add_1 wrote at the
\* receiver's limb pointer, cy the carry it returned.
add_assign_u64(self, r, cy) ==
    LET mem == StoreLimbs(self, r) IN
    [d |-> mem.d,
     over |-> mem.over,
     size |-> self.size + AsI32(cy),
     size_in_bits |-> (self.size_in_bits + AsU32(cy)) % (U32_MAX + 1)]

\* UnsignedInteger::clone
Clone(x) == x

\* ------------------------------------------------------------- the calls
NoCall == [op |-> "none", idx |-> 0, arg |-> 0, before |-> <<>>, panicked |-> FALSE]

\* The native addends tried: none, one, the largest limb.
U64Inputs == {0, 1, Base - 1}

\* Sequences of references to x and y, as handed to sum.
RefSeqs == UNION { [1 .. n -> 1 .. 2] : n \in 0 .. MaxSeq }

InitBig ==
    /\ ints \in [1 .. 2 -> UInts]
    /\ debug_assertions \in BOOLEAN
    /\ pc = "idle"
    /\ last = NoCall
    /\ nops = 0
    /\ items = <<>>
    /\ pos = 0
    /\ acc = from_string(0, 1)
    /\ pre_ok = TRUE

\* ints[i] += &ints[k]
AddAssignRef(i, k) ==
    /\ pc = "idle"
    /\ nops < MaxOps
    /\ i # k
    /\ \E o \in AddAssignOutcomes(ints[i], ints[k], debug_assertions) :
          /\ ints' = [ints EXCEPT ![i] = o.self, ![k] = o.rhs]
          /\ pc' = IF o.panicked THEN "panicked" ELSE "idle"
          /\ last' = [op |-> "add_assign", idx |-> i, arg |-> k, before |-> ints,
                      panicked |-> o.panicked]
    /\ nops' = nops + 1
    /\ pre_ok' = (pre_ok /\ ints[i].size_in_bits >= ints[k].size_in_bits)
    /\ UNCHANGED <<debug_assertions, items, pos, acc, primeVars, egVars>>

\* ints[i] += k, k a native word.  With no limb in use (the value zero) the
\* call hands n = 0 to mpn_sec_add_1, which GMP leaves undefined: the
\* process dies on the scratch buffer, or the first limb is written with the
\* sum of the limb stored there and k, and the carry returned is any word.
\* What the program does after such a call is not followed.
AddAssignU64(i, k) ==
    /\ pc = "idle"
    /\ nops < MaxOps
    /\ LET self == ints[i] IN
       IF self.size >= 1
       THEN /\ \E s_ \in Known(self, self.size) :
                  LET res   == mpn_sec_add_1(s_, s_.size, k)
                      out   == add_assign_u64(s_, res.r, res.cy)
                      fails == AddAssignU64Panics(s_, res.cy, debug_assertions)
                  IN  /\ ints' = [ints EXCEPT ![i] =
                                     IF fails
                                     THEN [out EXCEPT !.size_in_bits = s_.size_in_bits]
                                     ELSE out]
                      /\ pc' = IF fails THEN "panicked" ELSE "idle"
       ELSE \/ /\ ints' = ints
               /\ pc' = "aborted"
            \/ \E cy \in CarryWords :
                  LET r     == << (LimbAt(self, 1) + k) % Base >>
                      out   == add_assign_u64(self, r, cy)
                      fails == AddAssignU64Panics(self, cy, debug_assertions)
                  IN  /\ ints' = [ints EXCEPT ![i] =
                                     IF fails
                                     THEN [out EXCEPT !.size_in_bits = self.size_in_bits]
                                     ELSE out]
                      /\ pc' = IF fails THEN "panicked" ELSE "undefined"
    /\ last' = [op |-> "add_assign_u64", idx |-> i, arg |-> k, before |-> ints,
                panicked |-> pc' \in {"panicked", "aborted"}]
    /\ nops' = nops + 1
    /\ UNCHANGED <<debug_assertions, items, pos, acc, pre_ok, primeVars, egVars>>

\* ------------------------------------------------------------------ sum
\* let initial = iter.next().unwrap().clone(): unwrap panics on an empty
\* iterator.
SumStart(s) ==
    /\ pc = "idle"
    /\ nops = 0
    /\ items' = s
    /\ IF Len(s) = 0
       THEN /\ pc' = "panicked"
            /\ UNCHANGED <<acc, pos>>
       ELSE /\ pc' = "sum"
            /\ acc' = Clone(ints[s[1]])
            /\ pos' = 1
    /\ last' = [op |-> "sum", idx |-> 0, arg |-> 0, before |-> ints,
                panicked |-> (Len(s) = 0)]
    /\ nops' = 1
    /\ UNCHANGED <<ints, debug_assertions, pre_ok, primeVars, egVars>>

\* One step of iter.fold(initial, |x, y| x + y): Add::add is `self += rhs`.
SumStep_Swapped ==
    /\ pc = "sum"
    /\ pos < Len(items)
    /\ \E o \in AddAssignOutcomes(ints[items[pos + 1]], acc, debug_assertions) :
          /\ acc' = o.self
          /\ pc' = IF o.panicked THEN "panicked" ELSE "sum"
          /\ last' = [last EXCEPT !.panicked = o.panicked]
    /\ pos' = pos + 1
    /\ UNCHANGED <<ints, debug_assertions, nops, items, pre_ok, primeVars, egVars>>

SumStep ==
    /\ pc = "sum"
    /\ pos < Len(items)
    /\ \E o \in AddAssignOutcomes(acc, ints[items[pos + 1]], debug_assertions) :
          /\ acc' = o.self
          /\ pc' = IF o.panicked THEN "panicked" ELSE "sum"
          /\ last' = [last EXCEPT !.panicked = o.panicked]
    /\ pos' = pos + 1
    /\ UNCHANGED <<ints, debug_assertions, nops, items, pre_ok, primeVars, egVars>>

\* The fold returns its accumulator once the iterator is exhausted.
SumReturn ==
    /\ pc = "sum"
    /\ pos = Len(items)
    /\ pc' = "done"
    /\ UNCHANGED <<ints, debug_assertions, last, nops, items, pos, acc, pre_ok, primeVars, egVars>>

NextSum ==
    \/ \E s \in RefSeqs : SumStart(s)
    \/ SumStep
    \/ SumReturn

NextBig ==
    \/ \E i, k \in 1 .. 2 : AddAssignRef(i, k)
    \/ \E i \in 1 .. 2 : \E k \in U64Inputs : AddAssignU64(i, k)

IdlePrime ==
    /\ fn = "none"
    /\ n_arg = 0
    /\ running = "none"
    /\ bit_length = 0
    /\ ppc = "idle"
    /\ candidate = 0
    /\ mods = <<>>
    /\ delta = 0
    /\ ret = 0
    /\ p = 0
    /\ q = 0
    /\ lambda = 0
    /\ calls = <<>>
    /\ drawn = 0
    /\ trace = <<>>

NoKey == [h |-> 0, modulus |-> 0]

NoCiphertext == [c1 |-> 0, c2 |-> 0]

IdleElGamal ==
    /\ modulus = 0
    /\ generator = 0
    /\ secret_key = 0
    /\ public_key = NoKey
    /\ plaintext = 0
    /\ enc_y = 0
    /\ ciphertext = NoCiphertext
    /\ decrypted = 0
    /\ epc = "idle"
    /\ eg_op = "none"

Init == InitBig /\ IdlePrime /\ IdleElGamal

Next == NextBig

Spec == Init /\ [][Next]_vars

SpecSum == Init /\ [][NextSum]_vars

\* ------------------------------------------------------- prime search
\* The head of the ascending table of small primes (primes.rs).
FIRST_PRIMES == <<2, 3, 5, 7, 11, 13, 17, 19>>

\* u64::MAX, at the scaled width.
U64_MAX_Narrow == Pow(2, OffsetBits - 3) - 1

U64_MAX == Pow(2, OffsetBits) - 1

\* BigInteger::set_bit
set_bit(v, i) == IF (v \div Pow(2, i)) % 2 = 1 THEN v ELSE v + Pow(2, i)

\* BigInteger::is_probably_prime: for values of this size GMP's probable
\* prime test decides by trial division.
is_probably_prime(v) == v >= 2 /\ \A d \in 2 .. v - 1 : d * d <= v => v % d # 0

RECURSIVE Gcd(_, _)
Gcd(a, b) == IF b = 0 THEN a ELSE Gcd(b, a % b)

\* BigInteger::lcm
lcm(a, b) == IF a = 0 \/ b = 0 THEN 0 ELSE (a \div Gcd(a, b)) * b

\* let prime_count: usize = bit_length as usize / 3
prime_count(bl) == bl \div 3

\* candidate: random bits with the top and the bottom bit set.
DrawCandidate(r, bl) == set_bit(set_bit(r, bl - 1), 0)

\* mods: candidate.mod_u(p) for the first prime_count primes.
Residues(c, bl) == [i \in 1 .. prime_count(bl) |-> c % FIRST_PRIMES[i]]

\* The table entries the sieve's `for i in 1..prime_count` visits (the entry
\* of index 0, the prime 2, is skipped), as positions of FIRST_PRIMES.
SieveIndices(bl) == 2 .. prime_count(bl)

\* (mods[i] + delta) % FIRST_PRIMES[i], the sum wrapping at the offset width.
SieveResidue(i) == ((mods[i] + delta) % (U64_MAX + 1)) % FIRST_PRIMES[i]

\* The first table entry whose residue is forbidden, 0 when there is none.
FirstHit(forbidden) ==
    LET hits == { i \in SieveIndices(bit_length) : SieveResidue(i) \in forbidden }
    IN  IF hits = {} THEN 0 ELSE CHOOSE i \in hits : \A k \in hits : i <= k

\* An addition of this sieve pass exceeds the offset type: one of the sums
\* mods[i] + delta it evaluates, or the increment of delta.
SieveOverflows(forbidden, step) ==
    LET h == FirstHit(forbidden) IN
    \/ \E i \in SieveIndices(bit_length) :
          (h = 0 \/ i <= h) /\ mods[i] + delta > U64_MAX
    \/ h # 0 /\ delta + step > U64_MAX

InitPrime ==
    /\ ints = <<from_string(0, 1), from_string(0, 1)>>
    /\ debug_assertions \in BOOLEAN
    /\ pc = "idle"
    /\ last = NoCall
    /\ nops = 0
    /\ items = <<>>
    /\ pos = 0
    /\ acc = from_string(0, 1)
    /\ pre_ok = TRUE
    /\ fn \in {"gen_prime", "gen_safe_prime", "gen_rsa_modulus"}
    /\ n_arg \in 0 .. (IF fn = "gen_rsa_modulus" THEN MaxRsaBits ELSE MaxBitLen)
    /\ running = IF fn = "gen_rsa_modulus" THEN "none" ELSE fn
    /\ bit_length = IF fn = "gen_rsa_modulus" THEN 0 ELSE n_arg
    /\ ppc = IF fn = "gen_rsa_modulus" THEN "call" ELSE "outer"
    /\ candidate = 0
    /\ mods = <<>>
    /\ delta = 0
    /\ ret = 0
    /\ p = 0
    /\ q = 0
    /\ lambda = 0
    /\ calls = <<>>
    /\ drawn = 0
    /\ trace = <<>>
    /\ IdleElGamal

\* The next pass of 'outer starts: the pass's locals are gone.
Resample_KeepsDelta ==
    /\ ppc' = "outer"
    /\ candidate' = 0
    /\ mods' = <<>>
    /\ UNCHANGED <<delta, ret>>

Resample ==
    /\ ppc' = "outer"
    /\ candidate' = 0
    /\ mods' = <<>>
    /\ delta' = 0
    /\ UNCHANGED ret

Panic ==
    /\ ppc' = "panicked"
    /\ candidate' = 0
    /\ mods' = <<>>
    /\ delta' = 0
    /\ UNCHANGED ret

Return(v) ==
    /\ ppc' = "returned"
    /\ ret' = v
    /\ candidate' = 0
    /\ mods' = <<>>
    /\ delta' = 0

\* The head of 'outer when BigInteger::random yields r: the candidate with its
\* top and bottom bit set, its residues, delta = 0.
DrawWith(r) ==
    /\ candidate' = DrawCandidate(r, bit_length)
    /\ mods' = Residues(candidate', bit_length)
    /\ delta' = 0
    /\ ppc' = "sieve"
    /\ drawn' = r
    /\ trace' = <<"draw">>
    /\ UNCHANGED ret

\* gen_prime, the head of 'outer: draw the candidate, compute its residues,
\* delta = 0, max_delta.  bit_length - 1 underflows for bit_length = 0.
PrimeDraw ==
    /\ running = "gen_prime"
    /\ ppc = "outer"
    /\ IF bit_length = 0
       THEN Panic /\ UNCHANGED <<drawn, trace>>
       ELSE \E r \in 0 .. Pow(2, bit_length) - 1 : DrawWith(r)
    /\ UNCHANGED <<fn, n_arg, running, bit_length, p, q, lambda, calls, bigVars, egVars>>

\* let max_delta = u64::MAX - FIRST_PRIMES.last().unwrap()
PrimeMaxDelta == U64_MAX - FIRST_PRIMES[Len(FIRST_PRIMES)]

\* gen_prime, one pass of 'sieve: on the first residue 0, delta += 2 and
\* either the sieve again or, past max_delta, 'outer again; with no residue
\* 0, break delta and candidate += delta.
PrimeSieve ==
    /\ running = "gen_prime"
    /\ ppc = "sieve"
    /\ IF SieveOverflows({0}, 2) /\ debug_assertions
       THEN Panic
       ELSE IF FirstHit({0}) # 0
       THEN LET d2 == (delta + 2) % (U64_MAX + 1) IN
            IF d2 > PrimeMaxDelta
            THEN Resample
            ELSE /\ delta' = d2
                 /\ UNCHANGED <<ppc, candidate, mods, ret>>
       ELSE /\ candidate' = candidate + delta
            /\ ppc' = "strong"
            /\ UNCHANGED <<mods, delta, ret>>
    /\ trace' = Append(trace, "sieve")
    /\ UNCHANGED <<fn, n_arg, running, bit_length, p, q, lambda, calls, drawn, bigVars, egVars>>

\* gen_prime: return the candidate if it is probably prime, else 'outer again.
PrimeStrongTest_Skipped ==
    /\ running = "gen_prime"
    /\ ppc = "strong"
    /\ Return(candidate)
    /\ trace' = Append(trace, "strong")
    /\ UNCHANGED <<fn, n_arg, running, bit_length, p, q, lambda, calls, drawn, bigVars, egVars>>

PrimeStrongTest_GivesUp ==
    /\ running = "gen_prime"
    /\ ppc = "strong"
    /\ IF is_probably_prime(candidate) THEN Return(candidate) ELSE Panic
    /\ trace' = Append(trace, "strong")
    /\ UNCHANGED <<fn, n_arg, running, bit_length, p, q, lambda, calls, drawn, bigVars, egVars>>

PrimeStrongTest ==
    /\ running = "gen_prime"
    /\ ppc = "strong"
    /\ IF is_probably_prime(candidate) THEN Return(candidate) ELSE Resample
    /\ trace' = Append(trace, "strong")
    /\ UNCHANGED <<fn, n_arg, running, bit_length, p, q, lambda, calls, drawn, bigVars, egVars>>

\* gen_safe_prime, the head of 'outer.  With prime_count = 0 the index
\* prime_count - 1 of max_delta underflows.
SafeDraw ==
    /\ running = "gen_safe_prime"
    /\ ppc = "outer"
    /\ IF bit_length = 0 \/ prime_count(bit_length) = 0
       THEN Panic /\ UNCHANGED <<drawn, trace>>
       ELSE \E r \in 0 .. Pow(2, bit_length) - 1 : DrawWith(r)
    /\ UNCHANGED <<fn, n_arg, running, bit_length, p, q, lambda, calls, bigVars, egVars>>

\* let max_delta = u64::MAX - FIRST_PRIMES[prime_count - 1]
SafeMaxDelta == U64_MAX - FIRST_PRIMES[prime_count(bit_length)]

\* gen_safe_prime, one pass of 'sieve: on the first residue <= 1, delta += 4.
SafeSieve_StepTwo ==
    /\ running = "gen_safe_prime"
    /\ ppc = "sieve"
    /\ IF SieveOverflows({0, 1}, 4) /\ debug_assertions
       THEN Panic
       ELSE IF FirstHit({0, 1}) # 0
       THEN LET d4 == (delta + 2) % (U64_MAX + 1) IN
            IF d4 > SafeMaxDelta
            THEN Resample
            ELSE /\ delta' = d4
                 /\ UNCHANGED <<ppc, candidate, mods, ret>>
       ELSE /\ candidate' = candidate + delta
            /\ ppc' = "strong"
            /\ UNCHANGED <<mods, delta, ret>>
    /\ trace' = Append(trace, "sieve")
    /\ UNCHANGED <<fn, n_arg, running, bit_length, p, q, lambda, calls, drawn, bigVars, egVars>>

SafeSieve ==
    /\ running = "gen_safe_prime"
    /\ ppc = "sieve"
    /\ IF SieveOverflows({0, 1}, 4) /\ debug_assertions
       THEN Panic
       ELSE IF FirstHit({0, 1}) # 0
       THEN LET d4 == (delta + 4) % (U64_MAX + 1) IN
            IF d4 > SafeMaxDelta
            THEN Resample
            ELSE /\ delta' = d4
                 /\ UNCHANGED <<ppc, candidate, mods, ret>>
       ELSE /\ candidate' = candidate + delta
            /\ ppc' = "strong"
            /\ UNCHANGED <<mods, delta, ret>>
    /\ trace' = Append(trace, "sieve")
    /\ UNCHANGED <<fn, n_arg, running, bit_length, p, q, lambda, calls, drawn, bigVars, egVars>>

\* gen_safe_prime: the candidate's own strong test.
SafeStrongTest_LocalRetry ==
    /\ running = "gen_safe_prime"
    /\ ppc = "strong"
    /\ IF is_probably_prime(candidate)
       THEN /\ ppc' = "reduced"
            /\ UNCHANGED <<candidate, mods, delta, ret>>
       ELSE /\ ppc' = "sieve"
            /\ candidate' = candidate - delta
            /\ delta' = delta + 4
            /\ UNCHANGED <<mods, ret>>
    /\ trace' = Append(trace, "strong")
    /\ UNCHANGED <<fn, n_arg, running, bit_length, p, q, lambda, calls, drawn, bigVars, egVars>>

SafeStrongTest ==
    /\ running = "gen_safe_prime"
    /\ ppc = "strong"
    /\ IF is_probably_prime(candidate)
       THEN /\ ppc' = "reduced"
            /\ UNCHANGED <<candidate, mods, delta, ret>>
       ELSE Resample
    /\ trace' = Append(trace, "strong")
    /\ UNCHANGED <<fn, n_arg, running, bit_length, p, q, lambda, calls, drawn, bigVars, egVars>>

\* gen_safe_prime: the strong test of candidate >> 1.
SafeReducedTest_Skipped ==
    /\ running = "gen_safe_prime"
    /\ ppc = "reduced"
    /\ Return(candidate)
    /\ trace' = Append(trace, "reduced")
    /\ UNCHANGED <<fn, n_arg, running, bit_length, p, q, lambda, calls, drawn, bigVars, egVars>>

SafeReducedTest ==
    /\ running = "gen_safe_prime"
    /\ ppc = "reduced"
    /\ LET candidate_reduced == candidate \div 2 IN
       IF is_probably_prime(candidate_reduced) THEN Return(candidate) ELSE Resample
    /\ trace' = Append(trace, "reduced")
    /\ UNCHANGED <<fn, n_arg, running, bit_length, p, q, lambda, calls, drawn, bigVars, egVars>>

\* gen_rsa_modulus: let p = gen_safe_prime(bit_length / 2, rng), the call.
RsaCallP ==
    /\ fn = "gen_rsa_modulus"
    /\ ppc = "call"
    /\ running' = "gen_safe_prime"
    /\ bit_length' = n_arg \div 2
    /\ calls' = Append(calls, n_arg \div 2)
    /\ ppc' = "outer"
    /\ UNCHANGED <<fn, n_arg, candidate, mods, delta, ret, p, q, lambda, drawn, trace,
                   bigVars, egVars>>

\* gen_rsa_modulus: p is bound to what the first call returned, and
\* let q = gen_safe_prime(bit_length / 2, rng) is called.
RsaCallQ ==
    /\ fn = "gen_rsa_modulus"
    /\ ppc = "returned"
    /\ Len(calls) = 1
    /\ p' = ret
    /\ running' = "gen_safe_prime"
    /\ bit_length' = n_arg \div 2
    /\ calls' = Append(calls, n_arg \div 2)
    /\ ppc' = "outer"
    /\ drawn' = 0
    /\ trace' = <<>>
    /\ UNCHANGED <<fn, n_arg, candidate, mods, delta, ret, q, lambda, bigVars, egVars>>

\* gen_rsa_modulus: q is bound, n = &p * &q, lambda = (&p - 1).lcm(&(&q - 1)),
\* and (n, lambda) is returned.
RsaAssemble_Phi ==
    /\ fn = "gen_rsa_modulus"
    /\ ppc = "returned"
    /\ Len(calls) = 2
    /\ q' = ret
    /\ ret' = p * ret
    /\ lambda' = (p - 1) * (ret - 1)
    /\ ppc' = "done"
    /\ running' = "none"
    /\ UNCHANGED <<fn, n_arg, bit_length, candidate, mods, delta, p, calls, drawn, trace,
                   bigVars, egVars>>

RsaAssemble ==
    /\ fn = "gen_rsa_modulus"
    /\ ppc = "returned"
    /\ Len(calls) = 2
    /\ q' = ret
    /\ ret' = p * ret
    /\ lambda' = lcm(p - 1, ret - 1)
    /\ ppc' = "done"
    /\ running' = "none"
    /\ UNCHANGED <<fn, n_arg, bit_length, candidate, mods, delta, p, calls, drawn, trace,
                   bigVars, egVars>>

NextPrime ==
    \/ PrimeDraw
    \/ PrimeSieve
    \/ PrimeStrongTest
    \/ SafeDraw
    \/ SafeSieve
    \/ SafeStrongTest
    \/ SafeReducedTest
    \/ RsaCallP
    \/ RsaCallQ
    \/ RsaAssemble

SpecPrime == InitPrime /\ [][NextPrime]_vars

\* ------------------------------------------------------------ properties
LastSelf == last.before[last.idx]

LastRhs == last.before[last.arg]

\* C1: after a += &b with a.size_in_bits >= b.size_in_bits on well-formed
\* operands, a holds the exact sum and size_in_bits is max(a.bits, b.bits),
\* plus one exactly when the sum's bit length exceeds that maximum.
C1_AddExact ==
    (/\ last.op = "add_assign"
     /\ WellFormed(LastSelf) /\ WellFormed(LastRhs)
     /\ LastSelf.size_in_bits >= LastRhs.size_in_bits)
    => LET sum == Value(LastSelf, 0) + Value(LastRhs, 0)
           mb  == Max(LastSelf.size_in_bits, LastRhs.size_in_bits)
       IN  /\ ~last.panicked
           /\ \A j \in Limbs : Value(ints[last.idx], j) = sum
           /\ ints[last.idx].size_in_bits = IF BitLen(sum) > mb THEN mb + 1 ELSE mb

\* C2: after a += k with k a native word, a holds its prior value plus k, and
\* a carry out of a's most significant word extends size_in_bits by one.
C2_AddU64Exact ==
    (last.op = "add_assign_u64" /\ WellFormed(LastSelf))
    => LET sum == Value(LastSelf, 0) + last.arg IN
       /\ \A j \in Limbs : Value(ints[last.idx], j) = sum
       /\ sum >= Pow(Base, LastSelf.size)
              => ints[last.idx].size_in_bits = LastSelf.size_in_bits + 1

\* C3: as long as every add_assign(&rhs) met its precondition, size_in_bits
\* of every integer is at least the bit length of its value.
C3_BitsCoverValue ==
    pre_ok => \A i \in 1 .. 2 : \A j \in Limbs :
                  ints[i].size_in_bits >= BitLen(Value(ints[i], j))

\* C9 as stated: a += &b with a.size_in_bits < b.size_in_bits never completes.
C9_AlwaysPanics ==
    (last.op = "add_assign" /\ LastSelf.size_in_bits < LastRhs.size_in_bits)
    => (last.panicked /\ pc = "panicked")

\* C9, amended: in a build with debug assertions, a += &b with
\* a.size_in_bits < b.size_in_bits panics and leaves both operands as they
\* were; in a build without them the assertion is compiled out and the call
\* completes.
C9_PanicsUnderDebug ==
    (last.op = "add_assign" /\ LastSelf.size_in_bits < LastRhs.size_in_bits)
    => IF debug_assertions
       THEN last.panicked /\ pc = "panicked" /\ ints = last.before
       ELSE ~last.panicked /\ pc = "idle"

C9_Witness ==
    /\ last.op = "add_assign"
    /\ debug_assertions
    /\ LastSelf.size_in_bits < LastRhs.size_in_bits
    /\ pc = "panicked"

\* The accumulators a left fold over the first n elements of s can reach,
\* started from the first element: one for every content of the memory after
\* the accumulator's limb array that the fold reads.
RECURSIVE FoldLeft(_, _)
FoldLeft(s, n) ==
    IF n = 1 THEN { ints[s[1]] }
    ELSE UNION { { o.self : o \in AddAssignOutcomes(a, ints[s[n]], FALSE) } :
                   a \in FoldLeft(s, n - 1) }

\* The addition of the fold's n-th element can fail.
FoldStepPanics(s, n) ==
    \E a \in FoldLeft(s, n - 1) :
        \E o \in AddAssignOutcomes(a, ints[s[n]], debug_assertions) : o.panicked

\* Some addition of the fold over s fails, none before it having failed.
FoldPanics(s) ==
    \E m \in 2 .. Len(s) :
        /\ \A n \in 2 .. m - 1 : ~FoldStepPanics(s, n)
        /\ FoldStepPanics(s, m)

\* C10: sum over a non-empty sequence returns the left fold of add_assign
\* started from a copy of the first element and leaves the elements as they
\* were; it fails on an empty sequence, and otherwise only when an addition
\* of the fold fails.
C10_SumIsLeftFold ==
    /\ pc = "done" =>
          /\ Len(items) > 0
          /\ acc \in FoldLeft(items, Len(items))
          /\ ints = last.before
    /\ (last.op = "sum" /\ Len(items) = 0) => pc = "panicked"
    /\ (last.op = "sum" /\ pc = "panicked" /\ Len(items) > 0) => FoldPanics(items)

C10_Witness ==
    /\ pc = "done"
    /\ Len(items) = 3
    /\ items[1] # items[2]
    /\ acc # ints[items[1]]
    /\ ints = last.before

\* v is prime: it is at least 2 and no d with 1 < d < v divides it.
NoDivisor(v) == v >= 2 /\ \A d \in 2 .. v - 1 : v % d # 0

\* C4: a value returned by gen_prime(n) or gen_safe_prime(n) has exactly n
\* bits, the top and the bottom one set.
C4_ExactBitLength ==
    ppc = "returned" =>
        /\ Pow(2, bit_length - 1) <= ret
        /\ ret < Pow(2, bit_length)
        /\ ret % 2 = 1

\* C5: a value returned by gen_prime is prime.
C5_GenPrimeIsPrime ==
    (ppc = "returned" /\ running = "gen_prime") => NoDivisor(ret)

C5_Witness ==
    /\ ppc = "returned"
    /\ running = "gen_prime"
    /\ bit_length >= 6
    /\ NoDivisor(ret)

\* C6: a value p returned by gen_safe_prime is prime, and so is (p - 1) / 2.
C6_GenSafePrimeIsSafe ==
    (ppc = "returned" /\ running = "gen_safe_prime") =>
        /\ NoDivisor(ret)
        /\ (ret - 1) % 2 = 0
        /\ NoDivisor((ret - 1) \div 2)

C6_Witness ==
    /\ ppc = "returned"
    /\ running = "gen_safe_prime"
    /\ bit_length >= 6
    /\ NoDivisor(ret)
    /\ NoDivisor((ret - 1) \div 2)

\* l is the least common multiple of a and b.
IsLeastCommonMultiple(l, a, b) ==
    /\ l > 0
    /\ l % a = 0
    /\ l % b = 0
    /\ \A k \in 1 .. (l \div a) - 1 : (k * a) % b # 0

\* C7: gen_rsa_modulus calls gen_safe_prime(bit_length / 2) exactly twice,
\* for p and then for q, and returns n = p * q with lambda = lcm(p - 1, q - 1).
C7_RsaAssembly ==
    /\ Len(calls) <= 2
    /\ \A i \in 1 .. Len(calls) : calls[i] = n_arg \div 2
    /\ (fn = "gen_rsa_modulus" /\ ppc = "done") =>
          /\ Len(calls) = 2
          /\ ret = p * q
          /\ IsLeastCommonMultiple(lambda, p - 1, q - 1)

\* gen_rsa_modulus has returned with p = q.
C7_Witness ==
    /\ fn = "gen_rsa_modulus"
    /\ ppc = "done"
    /\ p = q
    /\ ret = p * p
    /\ lambda = p - 1

\* C8: the modulus returned by gen_rsa_modulus(n) has bit length n - 1 or n.
C8_ModulusBitLength ==
    (fn = "gen_rsa_modulus" /\ ppc = "done") => BitLen(ret) \in {n_arg - 1, n_arg}

\* C8 for even bit lengths alone: violated as well, through 9-bit values
\* returned by gen_safe_prime(8).
C8_EvenModulusBitLength ==
    (fn = "gen_rsa_modulus" /\ ppc = "done" /\ n_arg % 2 = 0)
        => BitLen(ret) \in {n_arg - 1, n_arg}

\* ------------------------------------------- one attempt as a function
\* The residues the sieve rejects and the step of its offset.
Forbidden(f) == IF f = "gen_prime" THEN {0} ELSE {0, 1}

Step(f) == IF f = "gen_prime" THEN 2 ELSE 4

MaxDelta(f, bl) ==
    IF f = "gen_prime" THEN U64_MAX - FIRST_PRIMES[Len(FIRST_PRIMES)]
    ELSE U64_MAX - FIRST_PRIMES[prime_count(bl)]

\* 'sieve run from offset d on candidate c: how it ends ("break" with the
\* offset, "exhausted" past max_delta, "panic" on an overflow caught by the
\* build) and the number of passes it made.
RECURSIVE SieveRun(_, _, _, _, _)
SieveRun(f, bl, c, d, dbg) ==
    LET res(i) == (((c % FIRST_PRIMES[i]) + d) % (U64_MAX + 1)) % FIRST_PRIMES[i]
        hits == { i \in SieveIndices(bl) : res(i) \in Forbidden(f) }
        h == IF hits = {} THEN 0 ELSE CHOOSE i \in hits : \A k \in hits : i <= k
        over == \/ \E i \in SieveIndices(bl) :
                      (h = 0 \/ i <= h) /\ (c % FIRST_PRIMES[i]) + d > U64_MAX
                \/ h # 0 /\ d + Step(f) > U64_MAX
        d2 == (d + Step(f)) % (U64_MAX + 1)
    IN  IF over /\ dbg THEN [end |-> "panic", delta |-> d, passes |-> 1]
        ELSE IF h = 0 THEN [end |-> "break", delta |-> d, passes |-> 1]
        ELSE IF d2 > MaxDelta(f, bl) THEN [end |-> "exhausted", delta |-> d2, passes |-> 1]
        ELSE LET rest == SieveRun(f, bl, c, d2, dbg)
             IN  [rest EXCEPT !.passes = @ + 1]

\* One pass of 'outer of search f on the random value r: its outcome
\* ("return" with the value, "resample", "panic") and the steps it takes.
Attempt(f, bl, r, dbg) ==
    IF bl = 0 \/ (f = "gen_safe_prime" /\ prime_count(bl) = 0)
    THEN [outcome |-> "panic", value |-> 0, steps |-> <<>>]
    ELSE LET c == DrawCandidate(r, bl)
             s == SieveRun(f, bl, c, 0, dbg)
             sieved == <<"draw">> \o [i \in 1 .. s.passes |-> "sieve"]
             v == c + s.delta
         IN  IF s.end = "panic"
             THEN [outcome |-> "panic", value |-> 0, steps |-> sieved]
             ELSE IF s.end = "exhausted"
             THEN [outcome |-> "resample", value |-> 0, steps |-> sieved]
             ELSE IF ~is_probably_prime(v)
             THEN [outcome |-> "resample", value |-> 0, steps |-> Append(sieved, "strong")]
             ELSE IF f = "gen_prime"
             THEN [outcome |-> "return", value |-> v, steps |-> Append(sieved, "strong")]
             ELSE IF is_probably_prime(v \div 2)
             THEN [outcome |-> "return", value |-> v,
                   steps |-> sieved \o <<"strong", "reduced">>]
             ELSE [outcome |-> "resample", value |-> 0,
                   steps |-> sieved \o <<"strong", "reduced">>]

IsPrefix(s, t) == Len(s) <= Len(t) /\ \A i \in 1 .. Len(s) : s[i] = t[i]

\* C11: every search attempt is a function of the bit length and of the random
\* value it drew, and of nothing else: the steps taken so far are the first
\* steps of Attempt, an attempt that has ended has taken all of them and has
\* Attempt's outcome and value, and the next attempt starts with none of the
\* previous one's candidate, residues or offset.  Two runs fed the same draws
\* therefore take the same steps and return the same value.
C11_AttemptIsFunctionOfDraw ==
    (running # "none" /\ trace # <<>>) =>
        LET a == Attempt(running, bit_length, drawn, debug_assertions) IN
        /\ IsPrefix(trace, a.steps)
        /\ ppc = "sieve" =>
              /\ candidate = DrawCandidate(drawn, bit_length)
              /\ mods = Residues(candidate, bit_length)
        /\ ppc = "returned" =>
              a.outcome = "return" /\ ret = a.value /\ trace = a.steps
        /\ ppc = "outer" =>
              /\ a.outcome = "resample" /\ trace = a.steps
              /\ candidate = 0 /\ mods = <<>> /\ delta = 0
        /\ ppc = "panicked" => a.outcome = "panic" /\ trace = a.steps

\* An attempt that needed two sieve passes has returned its value.
C11_Witness ==
    /\ running \in {"gen_prime", "gen_safe_prime"}
    /\ ppc = "returned"
    /\ Len(trace) >= 4
    /\ trace[3] = "sieve"
    /\ ret = Attempt(running, bit_length, drawn, debug_assertions).value
    /\ ret # DrawCandidate(drawn, bit_length)

\* The ways an attempt fails: the sieve rejects the offset and the next one
\* is past max_delta; the candidate fails the strong test; the candidate of
\* gen_safe_prime passes it and its half fails it.
SieveExhausted ==
    /\ ppc = "sieve"
    /\ FirstHit(Forbidden(running)) # 0
    /\ delta + Step(running) > MaxDelta(running, bit_length)

StrongFailed == ppc = "strong" /\ ~is_probably_prime(candidate)

ReducedFailed == ppc = "reduced" /\ ~is_probably_prime(candidate \div 2)

\* No search exhausts its sieve: delta starts at 0 for every candidate and
\* the sieve accepts an offset of at most 20, far from max_delta.  The
\* comparison `delta > max_delta` is false in every run, at the scaled width
\* as at 64 bits, so the width of the offset type decides no run.
OffsetWidthNeverDecides ==
    /\ ~SieveExhausted
    /\ ppc = "sieve" =>
          /\ delta <= 20
          /\ delta + Step(running) <= MaxDelta(running, bit_length)

Accepted(f, bl) == IF f = "gen_prime" THEN bl >= 1 ELSE bl >= 3

StrongTestFailed == ppc = "outer" /\ trace # <<>> /\ trace[Len(trace)] = "strong"

\* The sieve of gen_safe_prime has reached the largest offset a sieve of
\* these bit lengths reaches, and accepts it.
SieveAtLargestOffset ==
    /\ running = "gen_safe_prime"
    /\ ppc = "sieve"
    /\ delta = 20
    /\ FirstHit(Forbidden(running)) = 0

\* ------------------------------------------------------ integer ElGamal
\* rug's Integer::pow_mod for a non-negative exponent: b^e mod n.
RECURSIVE PowMod(_, _, _)
PowMod(b, e, n) == IF e = 0 THEN 1 % n ELSE (b * PowMod(b, e - 1, n)) % n

\* rug's Integer::secure_pow_mod panics unless the exponent is greater than
\* zero and the modulus is odd.
SecurePowModPanics(e, n) == e <= 0 \/ n % 2 = 0

secure_pow_mod(b, e, n) == PowMod(b, e, n)

\* rug's Integer::invert: the inverses of a modulo n in 0 .. n - 1; none is
\* the Err that unwrap panics on.
Inverses(a, n) == { x \in 0 .. n - 1 : (a * x) % n = 1 % n }

\* The moduli IntegerElGamal::new can hold: what gen_safe_prime returns.
SafePrimes ==
    { v \in 5 .. MaxModulus : is_probably_prime(v) /\ is_probably_prime(v \div 2) }

IdleBig ==
    /\ ints = <<from_string(0, 1), from_string(0, 1)>>
    /\ debug_assertions \in BOOLEAN
    /\ pc = "idle"
    /\ last = NoCall
    /\ nops = 0
    /\ items = <<>>
    /\ pos = 0
    /\ acc = from_string(0, 1)
    /\ pre_ok = TRUE

\* IntegerElGamal::new: the modulus is a safe prime, the generator is 4.
InitElGamal ==
    /\ IdleBig
    /\ IdlePrime
    /\ modulus \in SafePrimes
    /\ generator = 4
    /\ secret_key = 0
    /\ public_key = NoKey
    /\ plaintext = 0
    /\ enc_y = 0
    /\ ciphertext = NoCiphertext
    /\ decrypted = 0
    /\ epc = "new"
    /\ eg_op = "none"

\* generate_keys: q = modulus >> 1, secret_key = q.random_below(rng),
\* h = generator^secret_key mod modulus by secure_pow_mod.
generate_keys ==
    /\ epc = "new"
    /\ eg_op' = "generate_keys"
    /\ LET q_ == modulus \div 2 IN
       \E sk \in 0 .. q_ - 1 :
          IF SecurePowModPanics(sk, modulus)
          THEN /\ epc' = "panicked"
               /\ UNCHANGED <<secret_key, public_key>>
          ELSE /\ secret_key' = sk
               /\ public_key' = [h |-> secure_pow_mod(generator, sk, modulus),
                                 modulus |-> modulus]
               /\ epc' = "keyed"
    /\ UNCHANGED <<modulus, generator, plaintext, enc_y, ciphertext, decrypted,
                   bigVars, primeVars>>

\* encrypt: q = public_key.modulus >> 1, y = q.random_below(rng),
\* c1 = generator^y, c2 = (plaintext * h^y).rem(modulus).
encrypt(pt) ==
    /\ epc = "keyed"
    /\ eg_op' = "encrypt"
    /\ plaintext' = pt
    /\ LET q_ == public_key.modulus \div 2 IN
       \E yy \in 0 .. q_ - 1 :
          /\ enc_y' = yy
          /\ IF SecurePowModPanics(yy, public_key.modulus)
             THEN /\ epc' = "panicked"
                  /\ UNCHANGED ciphertext
             ELSE /\ ciphertext' =
                        [c1 |-> secure_pow_mod(generator, yy, public_key.modulus),
                         c2 |-> (pt * secure_pow_mod(public_key.h, yy, public_key.modulus))
                                    % public_key.modulus]
                  /\ epc' = "encrypted"
    /\ UNCHANGED <<modulus, generator, secret_key, public_key, decrypted,
                   bigVars, primeVars>>

\* decrypt of ciphertext.enrich(&public_key):
\* (c2 * c1^secret_key.invert(modulus).unwrap()).rem(modulus).
decrypt ==
    /\ epc = "encrypted"
    /\ eg_op' = "decrypt"
    /\ LET n_ == public_key.modulus
           s_ == secure_pow_mod(ciphertext.c1, secret_key, n_)
       IN  IF SecurePowModPanics(secret_key, n_) \/ Inverses(s_, n_) = {}
           THEN /\ epc' = "panicked"
                /\ UNCHANGED decrypted
           ELSE /\ decrypted' = (ciphertext.c2 * (CHOOSE x \in Inverses(s_, n_) : TRUE)) % n_
                /\ epc' = "decrypted"
    /\ UNCHANGED <<modulus, generator, secret_key, public_key, plaintext, enc_y,
                   ciphertext, bigVars, primeVars>>

NextElGamal ==
    \/ generate_keys
    \/ \E pt \in 0 .. modulus - 1 : encrypt(pt)
    \/ decrypt

SpecElGamal == InitElGamal /\ [][NextElGamal]_vars

\* C13: with keys that generate_keys produced, encrypt of a plaintext in
\* [0, modulus) completes for every randomness y in [0, (modulus - 1) / 2), and
\* decrypt of what it returned completes and gives the plaintext back.
C13_RoundTrip ==
    /\ eg_op = "encrypt" => epc = "encrypted"
    /\ eg_op = "decrypt" => (epc = "decrypted" /\ decrypted = plaintext)

\* The round trip for the randomness encrypt can complete with: every y in
\* [1, (modulus - 1) / 2).
C13_RoundTripPositiveY ==
    /\ (eg_op = "encrypt" /\ enc_y > 0) => epc = "encrypted"
    /\ eg_op = "decrypt" => (epc = "decrypted" /\ decrypted = plaintext)

\* The sieve rejects offset d for the candidate with residues m: for some
\* table entry the loop visits, (m[i] + d) mod prime[i] is forbidden.  The
\* loop's `1..prime_count` are the positions 2 .. K of the table.
Rejects(f, bl, m, d) ==
    \E i \in 2 .. prime_count(bl) : (m[i] + d) % FIRST_PRIMES[i] \in Forbidden(f)

\* C14: the residues are those of the drawn candidate for the first
\* K = bit_length / 3 primes and stay as computed; delta starts at 0 and a
\* rejection adds exactly 2 (gen_prime) or 4 (gen_safe_prime) to it; the loop
\* is left with the first such offset the sieve does not reject; and the
\* value handed to the strong test is the candidate plus that offset, is odd
\* and is divisible by none of the primes the loop visits.
C14_SieveFindsFirstOffset ==
    /\ [](\/ running = "none"
          \/ ppc \notin {"sieve", "strong", "reduced"}
          \/ LET c0 == DrawCandidate(drawn, bit_length) IN
             /\ Len(mods) = bit_length \div 3
             /\ \A i \in 1 .. Len(mods) : mods[i] = c0 % FIRST_PRIMES[i]
             /\ delta % Step(running) = 0
             /\ \A d \in 0 .. delta - 1 :
                    d % Step(running) = 0 => Rejects(running, bit_length, mods, d)
             /\ ppc = "sieve" => candidate = c0
             /\ ppc \in {"strong", "reduced"} =>
                    /\ ~Rejects(running, bit_length, mods, delta)
                    /\ candidate = c0 + delta
                    /\ candidate % 2 = 1
                    /\ \A i \in 2 .. bit_length \div 3 :
                           candidate % FIRST_PRIMES[i] # 0)
    /\ [][ /\ (ppc = "outer" /\ ppc' = "sieve") => delta' = 0
           /\ (ppc = "sieve" /\ ppc' = "sieve") =>
                 /\ delta' = delta + Step(running)
                 /\ mods' = mods
                 /\ candidate' = candidate
         ]_vars

\* gen_safe_prime has left the sieve after two rejections.
C14_Witness ==
    /\ running = "gen_safe_prime"
    /\ ppc = "strong"
    /\ bit_length >= 6
    /\ delta = 8
    /\ Rejects(running, bit_length, mods, 0)
    /\ Rejects(running, bit_length, mods, 4)
    /\ ~Rejects(running, bit_length, mods, 8)
    /\ candidate = DrawCandidate(drawn, bit_length) + 8

\* C15: in the sieve loop of a search for bit_length >= 3, max_delta is not
\* negative, every sum residue[i] + delta is within the offset type, the
\* increment of delta after a rejection is within it as well, and the search
\* does not end in a panic.
C15_OffsetArithmeticInRange ==
    (running # "none" /\ bit_length >= 3) =>
        /\ ppc # "panicked"
        /\ ppc = "sieve" =>
              /\ MaxDelta(running, bit_length) >= 0
              /\ FIRST_PRIMES[Len(FIRST_PRIMES)] <= U64_MAX
              /\ delta >= 0 /\ delta <= MaxDelta(running, bit_length)
              /\ \A i \in 1 .. Len(mods) : mods[i] + delta <= U64_MAX
              /\ Rejects(running, bit_length, mods, delta) =>
                    delta + Step(running) <= U64_MAX
              /\ ~SieveOverflows(Forbidden(running), Step(running))

\* gen_safe_prime is in its sieve loop past the first rejection, about to
\* increment delta again.
C15_Witness ==
    /\ running = "gen_safe_prime"
    /\ ppc = "sieve"
    /\ bit_length >= 6
    /\ delta = 4
    /\ Rejects(running, bit_length, mods, delta)
    /\ mods[2] + delta <= U64_MAX
    /\ delta + 4 <= MaxDelta(running, bit_length)

\* --------------------------------------------------- a fair random source
\* v is a safe prime.
IsSafePrime(v) == v % 2 = 1 /\ NoDivisor(v) /\ NoDivisor((v - 1) \div 2)

\* The values of exactly n bits that search f looks for.
Targets(f, n) ==
    IF n = 0 THEN {}
    ELSE { v \in Pow(2, n - 1) .. Pow(2, n) - 1 :
              IF f = "gen_prime" THEN NoDivisor(v) ELSE IsSafePrime(v) }

TargetTable ==
    [f \in {"gen_prime", "gen_safe_prime"} |-> [n \in 0 .. MaxBitLen |-> Targets(f, n)]]

\* The draw at the head of 'outer yields one of them.
DrawsTarget ==
    /\ running \in {"gen_prime", "gen_safe_prime"}
    /\ ppc = "outer"
    /\ bit_length > 0
    /\ running = "gen_safe_prime" => prime_count(bit_length) > 0
    /\ \E r \in TargetTable[running][bit_length] : DrawWith(r)
    /\ UNCHANGED <<fn, n_arg, running, bit_length, p, q, lambda, calls, bigVars, egVars>>

\* The steps of a search that draw nothing.
SearchStep ==
    \/ PrimeSieve
    \/ PrimeStrongTest
    \/ SafeSieve
    \/ SafeStrongTest
    \/ SafeReducedTest

\* The program keeps taking steps, and the random source is fair: every value
\* of bit_length bits is drawn again and again, so a draw among the primes
\* (safe primes) of that length, when there are any, happens again and again.
FairSource == WF_vars(SearchStep) /\ SF_vars(DrawsTarget)

\* A call of gen_prime or of gen_safe_prime on its own.
InitSearch ==
    /\ InitPrime
    /\ fn \in {"gen_prime", "gen_safe_prime"}
    /\ n_arg <= MaxSearchBits

NextSearch ==
    \/ PrimeDraw
    \/ SafeDraw
    \/ SearchStep

SpecSearchFair == InitSearch /\ [][NextSearch]_vars /\ FairSource

\* C16: under a fair random source gen_prime(n) returns whenever a prime of
\* n bits exists, and gen_safe_prime(n) returns whenever a safe prime of n
\* bits exists.
C16_EventuallyReturns ==
    /\ (fn = "gen_prime" /\ TargetTable[fn][n_arg] # {}) ~> (ppc = "returned")
    /\ (fn = "gen_safe_prime" /\ TargetTable[fn][n_arg] # {}) ~> (ppc = "returned")

\* gen_safe_prime(4) has returned 11, the one safe prime of four bits.
C16_Witness ==
    /\ fn = "gen_safe_prime"
    /\ n_arg = 4
    /\ TargetTable[fn][n_arg] = {11}
    /\ ppc = "returned"
    /\ ret = 11
====
